---- MODULE Spec2Model ----
(***************************************************************************)
(* Extended window status: the sensor entity ExtendedWindowStatus of       *)
(* custom_components/extended_window_status/sensor.py, together with the   *)
(* part of the host it talks to: the state machine hass.states, the        *)
(* state-change subscription and the handler invocations the host has      *)
(* scheduled for it.                                                       *)
(*                                                                         *)
(* A state text is a sequence of one-character strings, so that float()    *)
(* is computed from the characters.  A label (what the entity stores as    *)
(* its state) is a plain string.                                           *)
(***************************************************************************)
EXTENDS Integers, Sequences, FiniteSets, TLC

VARIABLES
    _mode,              \* self._mode
    _base_entity,       \* self._base_entity
    _second_entity,     \* self._second_entity
    _state,             \* self._state
    _translations,      \* self._translations
    _remove_listeners,  \* self._remove_listeners: the unsubscribe handles held
    hass_states,        \* hass.states: entity id -> State, a partial function
    listeners,          \* the host's live state-change subscriptions
    pending,            \* handler invocations the host has scheduled, in order
    ha_state,           \* what async_write_ha_state last published
    pc,                 \* lifecycle of the entity
    task,               \* the handler invocation the event loop is running
    flow,               \* the config flow: its _temp_data, step and last result
    device_registry,    \* the host's device registry: device id -> entry
    last                \* what the last step did (history only)

vars == <<_mode, _base_entity, _second_entity, _state, _translations,
          _remove_listeners, hass_states, listeners, pending, ha_state, pc, task,
          flow, device_registry, last>>

-----------------------------------------------------------------------------
(* Bounds *)

\* Handler invocations that may be scheduled and not yet run.
MaxPending == 2

-----------------------------------------------------------------------------
(* Values *)

\* Python's None: the state a reader sees as "unknown".
None == "None"

\* Nothing has been published yet.
NotWritten == "NotWritten"

\* The two modes, imported from .const at line 15; the entity only compares
\* them, so only their being different matters.
MODE_ROTARY_TILT == "rotary_tilt"

MODE_BINARY_TILT == "binary_tilt"

Modes == {MODE_ROTARY_TILT, MODE_BINARY_TILT}

\* The texts the two inputs take in the model.
StateTexts ==
    { <<"o","n">>,
      <<"o","f","f">>,
      <<"u","n","a","v","a","i","l","a","b","l","e">>,
      <<"0">>,
      <<"1","2">>,
      <<"5",".","5">>,
      <<"-","1">>,
      <<"-","0",".","0">>,
      <<" ","1","e","3","\n">>,
      <<"n","a","n">>,
      <<"n","o","t","_","a","_","n","u","m","b","e","r">> }

\* The dictionaries async_get_translations may return: none of the keys, all
\* of them, some of them.
NoTranslations == [k \in {} |-> ""]

TranslationDicts ==
    { NoTranslations,
      [closed |-> "Geschlossen", open |-> "Offen", tilted |-> "Gekippt"],
      [closed |-> "Zu"] }

-----------------------------------------------------------------------------
(* float(str) *)

Whitespace == {" ", "\t", "\n", "\r", "\f"}

Digits == {"0","1","2","3","4","5","6","7","8","9"}

Lower(c) ==
    CASE c = "I" -> "i" [] c = "N" -> "n" [] c = "F" -> "f" [] c = "T" -> "t"
      [] c = "Y" -> "y" [] c = "A" -> "a" [] c = "E" -> "e" [] OTHER -> c

LowerAll(s) == [i \in 1..Len(s) |-> Lower(s[i])]

RECURSIVE Strip(_)
Strip(s) ==
    IF s = <<>> THEN s
    ELSE IF s[1] \in Whitespace THEN Strip(Tail(s))
    ELSE IF s[Len(s)] \in Whitespace THEN Strip(SubSeq(s, 1, Len(s) - 1))
    ELSE s

\* digit (["_"] digit)*
IsDigitPart(s) ==
    /\ Len(s) > 0
    /\ s[1] \in Digits
    /\ s[Len(s)] \in Digits
    /\ \A i \in 1..Len(s) : s[i] \in Digits \cup {"_"}
    /\ \A i \in 1..(Len(s) - 1) : ~(s[i] = "_" /\ s[i + 1] = "_")

\* The first position of a character of cs in s, Len(s) + 1 when there is none.
FirstOf(s, cs) ==
    IF \E i \in 1..Len(s) : s[i] \in cs
    THEN CHOOSE i \in 1..Len(s) : s[i] \in cs /\ \A j \in 1..(i - 1) : s[j] \notin cs
    ELSE Len(s) + 1

Unsigned(s) ==
    IF s # <<>> /\ s[1] \in {"+", "-"} THEN Tail(s) ELSE s

IsNegative(s) == s # <<>> /\ s[1] = "-"

\* [digitpart] "." [digitpart] with at least one side, or digitpart.
IsMantissa(m) ==
    LET p == FirstOf(m, {"."})
        ip == SubSeq(m, 1, p - 1)
        fp == SubSeq(m, p + 1, Len(m))
    IN  IF p > Len(m) THEN IsDigitPart(m)
        ELSE /\ ip = <<>> \/ IsDigitPart(ip)
             /\ fp = <<>> \/ IsDigitPart(fp)
             /\ ~(ip = <<>> /\ fp = <<>>)

\* ("e" | "E") ["+" | "-"] digitpart, or nothing.
IsExponent(e) ==
    e = <<>> \/ (e[1] \in {"e", "E"} /\ IsDigitPart(Unsigned(Tail(e))))

MantissaIsZero(m) == \A i \in 1..Len(m) : m[i] \in {"0", ".", "_"}

\* float(text): exc is "ValueError" when the text is no number; otherwise cmp
\* is how the number compares with 0 ("zero", "pos", "neg"), or "nan", which
\* compares with nothing.  -0.0 == 0 in Python.  The texts of the model have
\* exponents of at most two digits, so no nonzero text rounds to 0.
float(text) ==
    LET s == Strip(text)
        u == Unsigned(s)
        w == LowerAll(u)
        p == FirstOf(u, {"e", "E"})
        m == SubSeq(u, 1, p - 1)
        e == SubSeq(u, p, Len(u))
    IN  IF w \in {<<"i","n","f">>, <<"i","n","f","i","n","i","t","y">>}
        THEN [exc |-> "none", cmp |-> IF IsNegative(s) THEN "neg" ELSE "pos"]
        ELSE IF w = <<"n","a","n">>
        THEN [exc |-> "none", cmp |-> "nan"]
        ELSE IF IsMantissa(m) /\ IsExponent(e)
        THEN [exc |-> "none",
              cmp |-> IF MantissaIsZero(m) THEN "zero"
                      ELSE IF IsNegative(s) THEN "neg" ELSE "pos"]
        ELSE [exc |-> "ValueError", cmp |-> "nan"]

-----------------------------------------------------------------------------
(* The entity *)

\* dict.get(key, default)
Get(d, key, default) == IF key \in DOMAIN d THEN d[key] ELSE default

\* A rotary branch that tests the rotation only for "not zero".
Mut_RotaryTilt_NoSign(base_state, second_state, tr) ==
    LET base_on == base_state.state = <<"o","n">>
        rotation == float(second_state.state)
    IN  IF rotation.exc \in {"ValueError", "TypeError"}
        THEN [state |-> None, exc |-> "none", log |-> "error_rotation"]
        ELSE IF ~base_on
        THEN [state |-> Get(tr, "closed", "Closed"), exc |-> "none", log |-> "debug"]
        ELSE IF rotation.cmp = "zero"
        THEN [state |-> Get(tr, "open", "Open"), exc |-> "none", log |-> "debug"]
        ELSE [state |-> Get(tr, "tilted", "Tilted"), exc |-> "none", log |-> "debug"]

\* A rotary branch that parses the rotation only once the base sensor is on.
Mut_RotaryTilt_ParseLate(base_state, second_state, tr) ==
    LET base_on == base_state.state = <<"o","n">>
        rotation == float(second_state.state)
    IN  IF ~base_on
        THEN [state |-> Get(tr, "closed", "Closed"), exc |-> "none", log |-> "debug"]
        ELSE IF rotation.exc \in {"ValueError", "TypeError"}
        THEN [state |-> None, exc |-> "none", log |-> "error_rotation"]
        ELSE IF rotation.cmp = "zero"
        THEN [state |-> Get(tr, "open", "Open"), exc |-> "none", log |-> "debug"]
        ELSE IF rotation.cmp = "pos"
        THEN [state |-> Get(tr, "tilted", "Tilted"), exc |-> "none", log |-> "debug"]
        ELSE [state |-> None, exc |-> "none", log |-> "debug"]

\* A rotary branch that stores a fifth label for a negative rotation.
Mut_RotaryTilt_Invalid(base_state, second_state, tr) ==
    LET base_on == base_state.state = <<"o","n">>
        rotation == float(second_state.state)
    IN  IF rotation.exc \in {"ValueError", "TypeError"}
        THEN [state |-> None, exc |-> "none", log |-> "error_rotation"]
        ELSE IF ~base_on
        THEN [state |-> Get(tr, "closed", "Closed"), exc |-> "none", log |-> "debug"]
        ELSE IF rotation.cmp = "zero"
        THEN [state |-> Get(tr, "open", "Open"), exc |-> "none", log |-> "debug"]
        ELSE IF rotation.cmp = "pos"
        THEN [state |-> Get(tr, "tilted", "Tilted"), exc |-> "none", log |-> "debug"]
        ELSE [state |-> Get(tr, "invalid", "Invalid"), exc |-> "none", log |-> "debug"]

\* Lines 150-166: the rotary branch.  float() raising ValueError or TypeError
\* is caught here; any other exception leaves the branch.
RotaryTilt(base_state, second_state, tr) ==
    LET base_on == base_state.state = <<"o","n">>
        rotation == float(second_state.state)
    IN  IF rotation.exc \in {"ValueError", "TypeError"}
        THEN [state |-> None, exc |-> "none", log |-> "error_rotation"]
        ELSE IF rotation.exc # "none"
        THEN [state |-> None, exc |-> rotation.exc, log |-> "none"]
        ELSE IF ~base_on
        THEN [state |-> Get(tr, "closed", "Closed"), exc |-> "none", log |-> "debug"]
        ELSE IF rotation.cmp = "zero"
        THEN [state |-> Get(tr, "open", "Open"), exc |-> "none", log |-> "debug"]
        ELSE IF rotation.cmp = "pos"
        THEN [state |-> Get(tr, "tilted", "Tilted"), exc |-> "none", log |-> "debug"]
        ELSE [state |-> None, exc |-> "none", log |-> "debug"]

\* A binary branch that gives up on an input that is "unavailable".
Mut_BinaryTilt_Unavailable(base_state, second_state, tr) ==
    LET first_on == base_state.state = <<"o","n">>
        second_on == second_state.state = <<"o","n">>
        gone == <<"u","n","a","v","a","i","l","a","b","l","e">>
    IN  IF base_state.state = gone \/ second_state.state = gone
        THEN [state |-> None, exc |-> "none", log |-> "warning_invalid"]
        ELSE IF ~first_on /\ ~second_on
        THEN [state |-> Get(tr, "closed", "Closed"), exc |-> "none", log |-> "debug"]
        ELSE IF first_on /\ second_on
        THEN [state |-> Get(tr, "open", "Open"), exc |-> "none", log |-> "debug"]
        ELSE IF ~first_on /\ second_on
        THEN [state |-> Get(tr, "tilted", "Tilted"), exc |-> "none", log |-> "debug"]
        ELSE [state |-> None, exc |-> "none", log |-> "warning_invalid"]

\* A binary branch that reads "A on, B off" as tilted.
Mut_BinaryTilt_Symmetric(base_state, second_state, tr) ==
    LET first_on == base_state.state = <<"o","n">>
        second_on == second_state.state = <<"o","n">>
    IN  IF ~first_on /\ ~second_on
        THEN [state |-> Get(tr, "closed", "Closed"), exc |-> "none", log |-> "debug"]
        ELSE IF first_on /\ second_on
        THEN [state |-> Get(tr, "open", "Open"), exc |-> "none", log |-> "debug"]
        ELSE [state |-> Get(tr, "tilted", "Tilted"), exc |-> "none", log |-> "debug"]

\* Lines 167-178: the binary branch.
BinaryTilt(base_state, second_state, tr) ==
    LET first_on == base_state.state = <<"o","n">>
        second_on == second_state.state = <<"o","n">>
    IN  IF ~first_on /\ ~second_on
        THEN [state |-> Get(tr, "closed", "Closed"), exc |-> "none", log |-> "debug"]
        ELSE IF first_on /\ second_on
        THEN [state |-> Get(tr, "open", "Open"), exc |-> "none", log |-> "debug"]
        ELSE IF ~first_on /\ second_on
        THEN [state |-> Get(tr, "tilted", "Tilted"), exc |-> "none", log |-> "debug"]
        ELSE [state |-> None, exc |-> "none", log |-> "warning_invalid"]

\* A body that returns on a missing input without resetting the state.
Mut_UpdateBody_KeepOnMissing(self_state, mode, tr, states, base, second) ==
    IF base \notin DOMAIN states \/ second \notin DOMAIN states
    THEN [state |-> self_state, exc |-> "none", log |-> "error_missing"]
    ELSE IF mode = MODE_ROTARY_TILT
    THEN RotaryTilt(states[base], states[second], tr)
    ELSE BinaryTilt(states[base], states[second], tr)

\* Lines 139-180: the body of the try block.  self_state is the state the
\* entity holds when the method is entered.
UpdateBody(self_state, mode, tr, states, base, second) ==
    IF base \notin DOMAIN states \/ second \notin DOMAIN states
    THEN [state |-> None, exc |-> "none", log |-> "error_missing"]
    ELSE IF mode = MODE_ROTARY_TILT
    THEN RotaryTilt(states[base], states[second], tr)
    ELSE BinaryTilt(states[base], states[second], tr)

\* An update that keeps the state it held when the new one would be None.
Mut_async_update_state_Hysteresis(self_state, mode, tr, states, base, second) ==
    LET r == UpdateBody(self_state, mode, tr, states, base, second)
    IN  IF r.exc # "none"
        THEN [state |-> None, exc |-> "none", log |-> "error_exception"]
        ELSE IF r.state = None THEN [r EXCEPT !.state = self_state]
        ELSE r

\* An update with neither try block: float()'s ValueError leaves the method.
Mut_async_update_state_NoTry(self_state, mode, tr, states, base, second) ==
    LET r == UpdateBody(self_state, mode, tr, states, base, second)
    IN  IF r.log = "error_rotation"
        THEN [state |-> self_state, exc |-> "ValueError", log |-> "none"]
        ELSE r

\* _async_update_state, lines 136-183: the new self._state, the exception that
\* leaves the method ("none": it returns) and what it logged.
_async_update_state(self_state, mode, tr, states, base, second) ==
    LET r == UpdateBody(self_state, mode, tr, states, base, second)
    IN  IF r.exc # "none"
        THEN [state |-> None, exc |-> "none", log |-> "error_exception"]
        ELSE r

\* A subscription that tracks one of the entities it was given.
Mut_async_track_state_change_event_One(entity_ids) ==
    [entity_ids |-> {CHOOSE e \in entity_ids : TRUE}]

\* async_track_state_change_event(hass, [base, second], handler): the
\* subscription the host registers.
async_track_state_change_event(entity_ids) ==
    [entity_ids |-> entity_ids]

\* A handler that publishes only a state that changed.
Mut_WritesOfStateChanged_OnChange(old_state, new_state) ==
    IF old_state = new_state THEN 0 ELSE 1

\* How often _async_state_changed calls async_write_ha_state, line 133.
WritesOfStateChanged(old_state, new_state) == 1

-----------------------------------------------------------------------------
(* History: what the last step did.  op names the operation, prev is the   *)
(* state the entity held before it, repeat says that the step is a handler *)
(* invocation and the step before it was one too, from is the lifecycle    *)
(* position the operation was called in, released the number of            *)
(* unsubscribe handles it called, scenario how far the run has followed    *)
(* the end-to-end scenario; writes counts the calls of                     *)
(* async_write_ha_state in the step, run_writes those of the step and, for *)
(* a repeat, of the invocation before it.                                  *)

\* The end-to-end scenario: rotary mode, activation with A "on" and B "0";
\* then B is set to "12" and the handler runs; then A is set to "off" and the
\* handler runs.  Any other step leaves the scenario.
Scenario(op, entity_id, text) ==
    CASE op = "async_added_to_hass"
           /\ _mode = MODE_ROTARY_TILT
           /\ {_base_entity, _second_entity} \subseteq DOMAIN hass_states
           /\ hass_states[_base_entity].state = <<"o","n">>
           /\ hass_states[_second_entity].state = <<"0">>
           -> "started"
      [] op = "async_set" /\ last.scenario = "started"
           /\ entity_id = _second_entity /\ text = <<"1","2">>
           -> "b_changed"
      [] op = "_async_state_changed" /\ last.scenario = "b_changed"
           -> "b_handled"
      [] op = "async_set" /\ last.scenario = "b_handled"
           /\ entity_id = _base_entity /\ text = <<"o","f","f">>
           -> "a_changed"
      [] op = "_async_state_changed" /\ last.scenario = "a_changed"
           -> "a_handled"
      [] OTHER -> "none"

Step(op, recomputed, writes, exc, log, released, scenario) ==
    [op |-> op, prev |-> _state, from |-> pc,
     repeat |-> (op = "_async_state_changed" /\ last.op = "_async_state_changed"),
     recomputed |-> recomputed, writes |-> writes,
     run_writes |-> IF op = "_async_state_changed" /\ last.op = "_async_state_changed"
                    THEN last.writes + writes ELSE writes,
     exc |-> exc, log |-> log,
     released |-> released, scenario |-> scenario]

-----------------------------------------------------------------------------
(* Initial state: the entity as __init__ leaves it, the host in any state. *)

PartialStates(ids) ==
    UNION { [d -> [state : StateTexts]] : d \in SUBSET ids }

\* An empty dict.
EmptyDict == [k \in {} |-> ""]

\* A FlowResult of async_show_form.
async_show_form(step_id, errors) ==
    [type |-> "form", step_id |-> step_id, errors |-> errors]

\* No flow has been started: the flow object holds no _temp_data yet.
NotStarted ==
    [cur_step |-> "none", _temp_data |-> EmptyDict,
     result |-> [type |-> "none"], accepted |-> <<>>,
     last_input |-> [step |-> "none"], rejected |-> FALSE]

\* A device registry without devices.
NoDevices == [d \in {} |-> [name_by_user |-> None, name |-> None]]

\* No handler invocation is running.
Idle == [at |-> "idle", read |-> {}, states |-> [e \in {} |-> <<>>], prev |-> None]

\* A constructor that subscribes at once.
Mut_Init_Subscribed ==
    /\ _mode \in Modes
    /\ _base_entity = "binary_sensor.window"
    /\ _second_entity = "sensor.second"
    /\ _state = None
    /\ _translations = NoTranslations
    /\ _remove_listeners =
         <<async_track_state_change_event({"binary_sensor.window", "sensor.second"})>>
    /\ hass_states \in PartialStates({"binary_sensor.window", "sensor.second"})
    /\ listeners =
         {async_track_state_change_event({"binary_sensor.window", "sensor.second"})}
    /\ pending = <<>>
    /\ ha_state = NotWritten
    /\ pc = "constructed"
    /\ task = Idle
    /\ flow = NotStarted
    /\ device_registry = NoDevices
    /\ last = [op |-> "__init__", prev |-> None, from |-> "constructed",
               repeat |-> FALSE, recomputed |-> FALSE,
               writes |-> 0, run_writes |-> 0, exc |-> "none", log |-> "none",
               released |-> 0, scenario |-> "none"]

Init ==
    /\ _mode \in Modes
    /\ _base_entity = "binary_sensor.window"
    /\ _second_entity = "sensor.second"
    /\ _state = None
    /\ _translations = NoTranslations
    /\ _remove_listeners = <<>>
    /\ hass_states \in PartialStates({"binary_sensor.window", "sensor.second"})
    /\ listeners = {}
    /\ pending = <<>>
    /\ ha_state = NotWritten
    /\ pc = "constructed"
    /\ task = Idle
    /\ flow = NotStarted
    /\ device_registry = NoDevices
    /\ last = [op |-> "__init__", prev |-> None, from |-> "constructed",
               repeat |-> FALSE, recomputed |-> FALSE,
               writes |-> 0, run_writes |-> 0, exc |-> "none", log |-> "none",
               released |-> 0, scenario |-> "none"]

-----------------------------------------------------------------------------
(* Operations of the entity *)

\* An activation that subscribes and leaves the first recomputation to the
\* first change event.
Mut_async_added_to_hass_NoInitial(tr) ==
    LET sub == async_track_state_change_event({_base_entity, _second_entity})
    IN  /\ pc = "constructed"
        /\ _translations' = tr
        /\ _remove_listeners' = Append(_remove_listeners, sub)
        /\ listeners' = listeners \cup {sub}
        /\ pc' = "added"
        /\ last' = Step("async_added_to_hass", FALSE, 0, "none", "debug", 0,
                        Scenario("async_added_to_hass", "", <<>>))
        /\ UNCHANGED <<flow, device_registry, task, _mode, _base_entity, _second_entity, _state, hass_states,
                       pending, ha_state>>

\* async_added_to_hass: load the translations, subscribe, recompute once.
\* The method holds no call of async_write_ha_state.
async_added_to_hass(tr) ==
    LET r == _async_update_state(_state, _mode, tr, hass_states,
                                 _base_entity, _second_entity)
        sub == async_track_state_change_event({_base_entity, _second_entity})
    IN  /\ pc = "constructed"
        /\ _translations' = tr
        /\ _remove_listeners' = Append(_remove_listeners, sub)
        /\ listeners' = listeners \cup {sub}
        /\ _state' = r.state
        /\ pc' = "added"
        /\ last' = Step("async_added_to_hass", TRUE, 0, r.exc, r.log, 0,
                        Scenario("async_added_to_hass", "", <<>>))
        /\ UNCHANGED <<flow, device_registry, task, _mode, _base_entity, _second_entity, hass_states, pending,
                       ha_state>>

\* A removal that calls the handles and keeps them.
Mut_async_will_remove_from_hass_NoClear ==
    /\ listeners' = listeners \ {_remove_listeners[i] : i \in 1..Len(_remove_listeners)}
    /\ pc' = "removed"
    /\ last' = Step("async_will_remove_from_hass", FALSE, 0, "none", "debug",
                    Len(_remove_listeners), "none")
    /\ UNCHANGED <<flow, device_registry, task, _mode, _base_entity, _second_entity, _state, _translations,
                   _remove_listeners, hass_states, pending, ha_state>>

\* A removal that also resets the state and publishes it.
Mut_async_will_remove_from_hass_Reset ==
    /\ listeners' = listeners \ {_remove_listeners[i] : i \in 1..Len(_remove_listeners)}
    /\ _remove_listeners' = <<>>
    /\ pc' = "removed"
    /\ _state' = None
    /\ ha_state' = None
    /\ last' = Step("async_will_remove_from_hass", FALSE, 1, "none", "debug",
                    Len(_remove_listeners), "none")
    /\ UNCHANGED <<flow, device_registry, task, _mode, _base_entity, _second_entity, _translations,
                   hass_states, pending>>

\* async_will_remove_from_hass: call every handle held, then drop them.
async_will_remove_from_hass ==
    /\ listeners' = listeners \ {_remove_listeners[i] : i \in 1..Len(_remove_listeners)}
    /\ _remove_listeners' = <<>>
    /\ pc' = "removed"
    /\ last' = Step("async_will_remove_from_hass", FALSE, 0, "none", "debug",
                    Len(_remove_listeners), "none")
    /\ UNCHANGED <<flow, device_registry, task, _mode, _base_entity, _second_entity, _state, _translations,
                   hass_states, pending, ha_state>>

\* A handler that calls _async_update_state without awaiting it: the
\* coroutine never runs, the state held is published.
Mut_async_state_changed_NoAwait ==
    /\ pending # <<>>
    /\ ha_state' = _state
    /\ last' = Step("_async_state_changed", FALSE, 1, "none", "debug", 0,
                    Scenario("_async_state_changed", "", <<>>))
    /\ pending' = Tail(pending)
    /\ UNCHANGED <<flow, device_registry, task, _mode, _base_entity, _second_entity, _state, _translations,
                   _remove_listeners, hass_states, listeners, pc>>

\* _async_state_changed: the host runs the oldest scheduled invocation.
_async_state_changed ==
    /\ pending # <<>>
    /\ LET r == _async_update_state(_state, _mode, _translations, hass_states,
                                    _base_entity, _second_entity)
           n == WritesOfStateChanged(_state, r.state)
       IN  /\ _state' = r.state
           /\ ha_state' = IF r.exc = "none" /\ n > 0 THEN r.state ELSE ha_state
           /\ last' = Step("_async_state_changed", TRUE,
                           IF r.exc = "none" THEN n ELSE 0, r.exc, r.log, 0,
                           Scenario("_async_state_changed", "", <<>>))
    /\ pending' = Tail(pending)
    /\ UNCHANGED <<flow, device_registry, task, _mode, _base_entity, _second_entity, _translations,
                   _remove_listeners, hass_states, listeners, pc>>

-----------------------------------------------------------------------------
(* The host *)

\* The invocations a state_changed event for entity_id schedules: one for each
\* live subscription that tracks it.
Scheduled(entity_id) ==
    IF \E l \in listeners : entity_id \in l.entity_ids
    THEN <<[entity_id |-> entity_id]>>
    ELSE <<>>

\* hass.states.async_set: an input reports a state.
async_set(entity_id, text) ==
    /\ Len(pending) + Len(Scheduled(entity_id)) <= MaxPending
    /\ hass_states' = [e \in DOMAIN hass_states \cup {entity_id} |->
                         IF e = entity_id THEN [state |-> text] ELSE hass_states[e]]
    /\ pending' = pending \o Scheduled(entity_id)
    /\ last' = Step("async_set", FALSE, 0, "none", "none", 0,
                    Scenario("async_set", entity_id, text))
    /\ UNCHANGED <<flow, device_registry, task, _mode, _base_entity, _second_entity, _state, _translations,
                   _remove_listeners, listeners, ha_state, pc>>

\* hass.states.async_remove: an input disappears.
async_remove(entity_id) ==
    /\ entity_id \in DOMAIN hass_states
    /\ Len(pending) + Len(Scheduled(entity_id)) <= MaxPending
    /\ hass_states' = [e \in DOMAIN hass_states \ {entity_id} |-> hass_states[e]]
    /\ pending' = pending \o Scheduled(entity_id)
    /\ last' = Step("async_remove", FALSE, 0, "none", "none", 0, "none")
    /\ UNCHANGED <<flow, device_registry, task, _mode, _base_entity, _second_entity, _state, _translations,
                   _remove_listeners, listeners, ha_state, pc>>

-----------------------------------------------------------------------------

Next ==
    \/ \E tr \in TranslationDicts : async_added_to_hass(tr)
    \/ async_will_remove_from_hass
    \/ _async_state_changed
    \/ \E e \in {_base_entity, _second_entity}, t \in StateTexts : async_set(e, t)
    \/ \E e \in {_base_entity, _second_entity} : async_remove(e)

Spec == Init /\ [][Next]_vars

-----------------------------------------------------------------------------
(* The handler statement by statement.  The host's event loop runs one     *)
(* coroutine at a time; the host and the other operations of the entity    *)
(* run only while no handler invocation is running or the running one is   *)
(* suspended at an await that yields to the loop.                          *)

\* The texts the inputs take in this specification.
StepTexts ==
    { <<"o","n">>, <<"o","f","f">>, <<"0">>, <<"1","2">>, <<"-","1">>,
      <<"n","o","t","_","a","_","n","u","m","b","e","r">> }

\* A handler that yields to the loop between its two reads.
Mut_SuspendsAt_BetweenReads(at) == at = "base_read"

\* Whether the handler yields to the event loop at a position.  Line 132
\* awaits a coroutine, which runs inline, and lines 136-183 hold no await.
SuspendsAt(at) == FALSE

LoopFree == task.at = "idle" \/ SuspendsAt(task.at)

\* The snapshot of entity_id as hass.states.get returns it now, added to the
\* snapshots read so far.
WithSnapshot(states, entity_id) ==
    [e \in DOMAIN states \cup ({entity_id} \cap DOMAIN hass_states) |->
        IF e = entity_id THEN hass_states[e] ELSE states[e]]

\* Line 130: the host starts the oldest scheduled invocation.
async_state_changed_enter ==
    /\ task.at = "idle"
    /\ pending # <<>>
    /\ pending' = Tail(pending)
    /\ task' = [at |-> "entered", read |-> {}, states |-> Idle.states,
                prev |-> _state]
    /\ last' = [last EXCEPT !.op = "enter", !.recomputed = FALSE]
    /\ UNCHANGED <<flow, device_registry, _mode, _base_entity, _second_entity, _state, _translations,
                   _remove_listeners, hass_states, listeners, ha_state, pc>>

\* Line 139: base_state = self._hass.states.get(self._base_entity)
states_get_base ==
    /\ task.at = "entered"
    /\ task' = [task EXCEPT !.at = "base_read",
                            !.read = {_base_entity},
                            !.states = WithSnapshot(task.states, _base_entity)]
    /\ last' = [last EXCEPT !.op = "get_base"]
    /\ UNCHANGED <<flow, device_registry, _mode, _base_entity, _second_entity, _state, _translations,
                   _remove_listeners, hass_states, listeners, pending, ha_state, pc>>

\* Line 140: second_state = self._hass.states.get(self._second_entity)
states_get_second ==
    /\ task.at = "base_read"
    /\ task' = [task EXCEPT !.at = "second_read",
                            !.read = task.read \cup {_second_entity},
                            !.states = WithSnapshot(task.states, _second_entity)]
    /\ last' = [last EXCEPT !.op = "get_second"]
    /\ UNCHANGED <<flow, device_registry, _mode, _base_entity, _second_entity, _state, _translations,
                   _remove_listeners, hass_states, listeners, pending, ha_state, pc>>

\* A recomputation that writes "0" back to a second input it could not use.
Mut_async_update_state_assign_WritesBack ==
    /\ task.at = "second_read"
    /\ LET r == _async_update_state(_state, _mode, _translations, task.states,
                                    _base_entity, _second_entity)
       IN  /\ _state' = r.state
           /\ task' = [task EXCEPT !.at = "updated"]
           /\ last' = [last EXCEPT !.op = "assign", !.recomputed = TRUE,
                                   !.exc = r.exc, !.log = r.log]
           /\ hass_states' =
                IF r.log = "error_rotation"
                THEN [hass_states EXCEPT ![_second_entity] = [state |-> <<"0">>]]
                ELSE hass_states
    /\ UNCHANGED <<flow, device_registry, _mode, _base_entity, _second_entity, _translations,
                   _remove_listeners, listeners, pending, ha_state, pc>>

\* Lines 142-183: the rest of _async_update_state, which assigns self._state
\* from the two snapshots read.
async_update_state_assign ==
    /\ task.at = "second_read"
    /\ LET r == _async_update_state(_state, _mode, _translations, task.states,
                                    _base_entity, _second_entity)
       IN  /\ _state' = r.state
           /\ task' = [task EXCEPT !.at = "updated"]
           /\ last' = [last EXCEPT !.op = "assign", !.recomputed = TRUE,
                                   !.exc = r.exc, !.log = r.log]
    /\ UNCHANGED <<flow, device_registry, _mode, _base_entity, _second_entity, _translations,
                   _remove_listeners, hass_states, listeners, pending, ha_state, pc>>

\* Line 133: self.async_write_ha_state(), which ends the invocation.
async_write_ha_state ==
    /\ task.at = "updated"
    /\ ha_state' = _state
    /\ task' = Idle
    /\ last' = [Step("_async_state_changed", TRUE, 1, last.exc, last.log, 0, "none")
                  EXCEPT !.prev = task.prev]
    /\ UNCHANGED <<flow, device_registry, _mode, _base_entity, _second_entity, _state, _translations,
                   _remove_listeners, hass_states, listeners, pending, pc>>

InitSteps ==
    /\ _mode \in Modes
    /\ _base_entity = "binary_sensor.window"
    /\ _second_entity = "sensor.second"
    /\ _state = None
    /\ _translations = NoTranslations
    /\ _remove_listeners = <<>>
    /\ hass_states \in
         UNION { [d -> [state : StepTexts]] :
                 d \in SUBSET {"binary_sensor.window", "sensor.second"} }
    /\ listeners = {}
    /\ pending = <<>>
    /\ ha_state = NotWritten
    /\ pc = "constructed"
    /\ task = Idle
    /\ flow = NotStarted
    /\ device_registry = NoDevices
    /\ last = [op |-> "__init__", prev |-> None, from |-> "constructed",
               repeat |-> FALSE, recomputed |-> FALSE,
               writes |-> 0, run_writes |-> 0, exc |-> "none", log |-> "none",
               released |-> 0, scenario |-> "none"]

NextSteps ==
    \/ LoopFree /\ \E tr \in TranslationDicts : async_added_to_hass(tr)
    \/ LoopFree /\ async_will_remove_from_hass
    \/ LoopFree /\ \E e \in {_base_entity, _second_entity}, t \in StepTexts :
                      async_set(e, t)
    \/ LoopFree /\ \E e \in {_base_entity, _second_entity} : async_remove(e)
    \/ async_state_changed_enter
    \/ states_get_base
    \/ states_get_second
    \/ async_update_state_assign
    \/ async_write_ha_state

SpecSteps == InitSteps /\ [][NextSteps]_vars

-----------------------------------------------------------------------------
(* The setup config flow EntityCombinerConfigFlow of config_flow.py.  The   *)
(* host starts a flow with async_step_user(None), validates what the user   *)
(* submits against the schema of the form shown, and hands it to the step   *)
(* named by that form.                                                      *)

CONF_DEVICE_ID == "device_id"

DeviceIds == {"dev_kitchen", "dev_bath", "dev_gone"}
BaseEntities == {"binary_sensor.window", "input_boolean.window"}
NumberEntities == {"number.handle", "input_number.handle"}
BinaryEntities == {"binary_sensor.tilt", "input_boolean.tilt"}

\* The registries of the host: the kitchen device with every kind of name,
\* the bath device present or not, dev_gone never present.
Registries ==
    { [d \in ids |->
         IF d = "dev_kitchen" THEN [name_by_user |-> nu, name |-> n]
         ELSE [name_by_user |-> None, name |-> "Bath window"]] :
      ids \in {{"dev_kitchen"}, {"dev_kitchen", "dev_bath"}},
      nu \in {None, "", "Kitchen"},
      n \in {None, "", "Window contact"} }

\* Python's "x or y" on optional strings: None and "" are false.
Or(x, y) == IF x \notin {None, ""} THEN x ELSE y

\* d[key] = value on a dict.
SetItem(d, key, value) ==
    [k \in DOMAIN d \cup {key} |-> IF k = key THEN value ELSE d[k]]

\* The inputs the schema of a form admits.
UserInputs == [device_id : DeviceIds, base_entity : BaseEntities]

ModeInputs == [mode : Modes]

SecondEntityInputs(mode) ==
    [second_entity : IF mode = MODE_ROTARY_TILT THEN NumberEntities
                     ELSE BinaryEntities]

\* The host moves the flow to the step of the form a step returned, or ends
\* it with the entry created.
Advance(step, user_input, temp_data, result) ==
    [cur_step |-> IF result.type = "form" THEN result.step_id ELSE "done",
     _temp_data |-> temp_data,
     result |-> result,
     accepted |-> IF result.type = "form" /\ result.step_id = step
                  THEN flow.accepted
                  ELSE Append(flow.accepted, [step |-> step, input |-> user_input]),
     last_input |-> [step |-> step, input |-> user_input],
     rejected |-> flow.rejected
                    \/ (result.type = "form" /\ result.errors # EmptyDict)]

\* The host starts the flow: async_step_user(None), lines 25, 57-66.
async_init ==
    /\ flow.cur_step = "none"
    /\ flow' = [flow EXCEPT !.cur_step = "user",
                            !.result = async_show_form("user", EmptyDict)]
    /\ UNCHANGED <<_mode, _base_entity, _second_entity, _state, _translations,
                   _remove_listeners, hass_states, listeners, pending, ha_state,
                   pc, task, device_registry, last>>

\* A user step that looks no device up: reading a name of the missing entry
\* raises, and the handler of line 48 shows the form with "unknown".
Mut_async_step_user_NoCheck(user_input) ==
    /\ flow.cur_step = "user"
    /\ LET id == user_input[CONF_DEVICE_ID]
           device_name == Or(device_registry[id].name_by_user,
                             Or(device_registry[id].name, "Unnamed Device"))
       IN  flow' =
             IF id \notin DOMAIN device_registry
             THEN Advance("user", user_input, flow._temp_data,
                          async_show_form("user", [base |-> "unknown"]))
             ELSE Advance("user", user_input,
                          [device_id |-> id,
                           base_entity |-> user_input["base_entity"],
                           device_name |-> device_name],
                          async_show_form("mode", EmptyDict))
    /\ UNCHANGED <<_mode, _base_entity, _second_entity, _state, _translations,
                   _remove_listeners, hass_states, listeners, pending, ha_state,
                   pc, task, device_registry, last>>

\* async_step_user with input, lines 26-47.  The schema has validated both
\* keys, so nothing in the try block raises; line 47 shows the mode form.
async_step_user(user_input) ==
    /\ flow.cur_step = "user"
    /\ LET id == user_input[CONF_DEVICE_ID]
           device_name == Or(device_registry[id].name_by_user,
                             Or(device_registry[id].name, "Unnamed Device"))
       IN  flow' =
             IF id \notin DOMAIN device_registry
             THEN Advance("user", user_input, flow._temp_data,
                          async_show_form("user", [device_id |-> "device_invalid"]))
             ELSE Advance("user", user_input,
                          [device_id |-> id,
                           base_entity |-> user_input["base_entity"],
                           device_name |-> device_name],
                          async_show_form("mode", EmptyDict))
    /\ UNCHANGED <<_mode, _base_entity, _second_entity, _state, _translations,
                   _remove_listeners, hass_states, listeners, pending, ha_state,
                   pc, task, device_registry, last>>

\* async_step_mode with input, lines 89-93; line 93 shows the form of the
\* second entity (lines 126-153).
async_step_mode(user_input) ==
    /\ flow.cur_step = "mode"
    /\ flow' = Advance("mode", user_input,
                       SetItem(flow._temp_data, "mode", user_input["mode"]),
                       async_show_form("second_entity", EmptyDict))
    /\ UNCHANGED <<_mode, _base_entity, _second_entity, _state, _translations,
                   _remove_listeners, hass_states, listeners, pending, ha_state,
                   pc, task, device_registry, last>>

\* async_step_second_entity with input, lines 118-124.
async_step_second_entity(user_input) ==
    /\ flow.cur_step = "second_entity"
    /\ LET data == SetItem(flow._temp_data, "second_entity",
                           user_input["second_entity"])
       IN  flow' = Advance("second_entity", user_input, data,
                           [type |-> "create_entry",
                            title |-> data["device_name"],
                            data |-> data])
    /\ UNCHANGED <<_mode, _base_entity, _second_entity, _state, _translations,
                   _remove_listeners, hass_states, listeners, pending, ha_state,
                   pc, task, device_registry, last>>

FlowInit ==
    /\ _mode = MODE_ROTARY_TILT
    /\ _base_entity = "binary_sensor.window"
    /\ _second_entity = "sensor.second"
    /\ _state = None
    /\ _translations = NoTranslations
    /\ _remove_listeners = <<>>
    /\ hass_states = [e \in {} |-> [state |-> <<>>]]
    /\ listeners = {}
    /\ pending = <<>>
    /\ ha_state = NotWritten
    /\ pc = "constructed"
    /\ task = Idle
    /\ flow = NotStarted
    /\ device_registry \in Registries
    /\ last = [op |-> "__init__", prev |-> None, from |-> "constructed",
               repeat |-> FALSE, recomputed |-> FALSE,
               writes |-> 0, run_writes |-> 0, exc |-> "none", log |-> "none",
               released |-> 0, scenario |-> "none"]

FlowNext ==
    \/ async_init
    \/ \E user_input \in UserInputs : async_step_user(user_input)
    \/ \E user_input \in ModeInputs : async_step_mode(user_input)
    \/ /\ flow.cur_step = "second_entity"
       /\ \E user_input \in SecondEntityInputs(flow._temp_data["mode"]) :
             async_step_second_entity(user_input)

FlowSpec == FlowInit /\ [][FlowNext]_vars

-----------------------------------------------------------------------------
(* The options flow EntityCombinerOptionsFlow of config_flow.py.  The host  *)
(* starts it with async_step_init(None) and hands what the user submits to  *)
(* the step named by the form last shown.                                   *)

\* The mode names bound in the module of config_flow.py (line 13).
ModuleGlobals ==
    [MODE_ROTARY_TILT |-> MODE_ROTARY_TILT, MODE_BINARY_TILT |-> MODE_BINARY_TILT]

\* The inputs the schema of the init form admits (_get_init_schema).
InitInputs == [device_id : DeviceIds, base_entity : BaseEntities, mode : Modes]

\* EntityCombinerOptionsFlow.async_step_second_entity(None), lines 229-256:
\* the name compared with the mode is looked up in the module's globals, and
\* a name that is not bound raises NameError.
options_second_entity_form(temp_data) ==
    IF "MODE_ROTARY" \notin DOMAIN ModuleGlobals
    THEN [exc |-> "NameError", result |-> [type |-> "none"]]
    ELSE [exc |-> "none",
          result |-> [type |-> "form", step_id |-> "second_entity",
                      errors |-> EmptyDict,
                      domain |-> IF temp_data["mode"] = ModuleGlobals["MODE_ROTARY"]
                                 THEN {"number", "input_number"}
                                 ELSE {"binary_sensor", "input_boolean"}]]

\* EntityCombinerOptionsFlow.async_step_init with input, lines 172-206.  The
\* call of line 203 is inside the try block, so what it raises is handled at
\* line 205: the init form is shown with errors base: unknown.
options_async_step_init(user_input) ==
    LET id == user_input[CONF_DEVICE_ID]
        device_name == Or(device_registry[id].name_by_user,
                          Or(device_registry[id].name, "Unnamed Device"))
        temp_data == [device_id |-> id,
                      base_entity |-> user_input["base_entity"],
                      device_name |-> device_name,
                      mode |-> user_input["mode"]]
        second == options_second_entity_form(temp_data)
    IN  IF id \notin DOMAIN device_registry
        THEN Advance("init", user_input, flow._temp_data,
                     async_show_form("init", [device_id |-> "device_invalid"]))
        ELSE IF second.exc # "none"
        THEN Advance("init", user_input, temp_data,
                     async_show_form("init", [base |-> "unknown"]))
        ELSE Advance("init", user_input, temp_data, second.result)

\* EntityCombinerOptionsFlow.async_step_second_entity with input, lines
\* 220-227.
options_async_step_second_entity(user_input) ==
    LET data == SetItem(flow._temp_data, "second_entity",
                        user_input["second_entity"])
    IN  Advance("second_entity", user_input, data,
                [type |-> "create_entry", title |-> data["device_name"],
                 data |-> data])

\* The host starts the options flow: async_step_init(None), lines 171, 215.
options_async_init ==
    /\ flow.cur_step = "none"
    /\ flow' = [flow EXCEPT !.cur_step = "init",
                            !.result = async_show_form("init", EmptyDict)]
    /\ UNCHANGED <<_mode, _base_entity, _second_entity, _state, _translations,
                   _remove_listeners, hass_states, listeners, pending, ha_state,
                   pc, task, device_registry, last>>

\* The host hands a submission to the step of the form last shown.
options_async_configure ==
    /\ flow.cur_step \in {"init", "second_entity"}
    /\ IF flow.cur_step = "init"
       THEN \E user_input \in InitInputs :
               flow' = options_async_step_init(user_input)
       ELSE \E user_input \in SecondEntityInputs(flow._temp_data["mode"]) :
               flow' = options_async_step_second_entity(user_input)
    /\ UNCHANGED <<_mode, _base_entity, _second_entity, _state, _translations,
                   _remove_listeners, hass_states, listeners, pending, ha_state,
                   pc, task, device_registry, last>>

OptionsNext ==
    \/ options_async_init
    \/ options_async_configure

OptionsSpec == FlowInit /\ [][OptionsNext]_vars

-----------------------------------------------------------------------------
(* The derived states as the entity stores them: Unknown is None; Closed,  *)
(* Open and Tilted are stored as their labels in the loaded translations,  *)
(* "Closed", "Open" and "Tilted" where a translation is missing.           *)

Unknown == None

Closed == IF "closed" \in DOMAIN _translations THEN _translations["closed"] ELSE "Closed"

Open == IF "open" \in DOMAIN _translations THEN _translations["open"] ELSE "Open"

Tilted == IF "tilted" \in DOMAIN _translations THEN _translations["tilted"] ELSE "Tilted"

\* The last step was a recomputation.
Recomputed == last.recomputed

APresent == _base_entity \in DOMAIN hass_states

BPresent == _second_entity \in DOMAIN hass_states

AText == hass_states[_base_entity].state

BText == hass_states[_second_entity].state

AOn == AText = <<"o","n">>

BOn == BText = <<"o","n">>

\* The decision tables of both modes over the snapshots the host holds now.
DecisionTable ==
    IF ~APresent \/ ~BPresent THEN Unknown
    ELSE IF _mode = MODE_ROTARY_TILT
    THEN IF float(BText).exc # "none" THEN Unknown
         ELSE IF ~AOn THEN Closed
         ELSE IF float(BText).cmp = "zero" THEN Open
         ELSE IF float(BText).cmp = "pos" THEN Tilted
         ELSE Unknown
    ELSE IF ~AOn /\ ~BOn THEN Closed
         ELSE IF AOn /\ BOn THEN Open
         ELSE IF ~AOn /\ BOn THEN Tilted
         ELSE Unknown

-----------------------------------------------------------------------------
(* Claims *)

\* C1: in rotary mode, after a recomputation that found both inputs and a
\* numeric B: A not "on" gives Closed whatever the rotation; A "on" gives Open
\* for rotation 0, Tilted for a positive and Unknown for a negative rotation.
C1_RotaryTable ==
    (Recomputed /\ _mode = MODE_ROTARY_TILT /\ APresent /\ BPresent
       /\ float(BText).exc = "none")
    => /\ ~AOn => _state = Closed
       /\ (AOn /\ float(BText).cmp = "zero") => _state = Open
       /\ (AOn /\ float(BText).cmp = "pos") => _state = Tilted
       /\ (AOn /\ float(BText).cmp = "neg") => _state = Unknown

\* C1 witness: a handler recomputed Unknown from A "on" and B "-1", after
\* another output.
C1_Witness ==
    /\ last.op = "_async_state_changed"
    /\ _mode = MODE_ROTARY_TILT /\ APresent /\ BPresent
    /\ AOn /\ BText = <<"-","1">>
    /\ _state = Unknown /\ last.prev = Tilted

\* C2: in binary mode, after a recomputation that found both inputs, with
\* a = (A is "on") and b = (B is "on"): (F,F) Closed, (T,T) Open, (F,T) Tilted,
\* (T,F) Unknown.
C2_BinaryTable ==
    (Recomputed /\ _mode = MODE_BINARY_TILT /\ APresent /\ BPresent)
    => /\ (~AOn /\ ~BOn) => _state = Closed
       /\ (AOn /\ BOn) => _state = Open
       /\ (~AOn /\ BOn) => _state = Tilted
       /\ (AOn /\ ~BOn) => _state = Unknown

\* C2 witness: a handler recomputed Unknown from A "on" and B "off".
C2_Witness ==
    /\ last.op = "_async_state_changed"
    /\ _mode = MODE_BINARY_TILT /\ APresent /\ BPresent
    /\ AOn /\ BText = <<"o","f","f">>
    /\ _state = Unknown /\ last.prev = Open

\* C3: in both modes, a recomputation that finds A or B absent leaves Unknown
\* and returns there (it logs the missing input and nothing of the tables).
C3_MissingInputUnknown ==
    (Recomputed /\ (~APresent \/ ~BPresent))
    => (_state = Unknown /\ last.log = "error_missing" /\ last.exc = "none")

\* C3 witness: B absent, A "off" (Closed by either table were B ignored), and
\* the output before was Closed.
C3_Witness ==
    /\ Recomputed /\ APresent /\ ~BPresent
    /\ AText = <<"o","f","f">>
    /\ last.prev = Closed /\ _state = Unknown

\* C4: in rotary mode, a recomputation that finds a B that is no number leaves
\* Unknown and returns normally, whatever A and the output before.
C4_RotationParseFailure ==
    (Recomputed /\ _mode = MODE_ROTARY_TILT /\ APresent /\ BPresent
       /\ float(BText).exc # "none")
    => (_state = Unknown /\ last.exc = "none")

\* C4 witness: B is "not_a_number", A is "off", the output before was Closed.
C4_Witness ==
    /\ Recomputed /\ _mode = MODE_ROTARY_TILT /\ APresent /\ BPresent
    /\ BText = <<"n","o","t","_","a","_","n","u","m","b","e","r">>
    /\ AText = <<"o","f","f">>
    /\ last.prev = Closed /\ _state = Unknown /\ last.exc = "none"

\* C5: once async_will_remove_from_hass has returned, no handler invocation
\* of the dropped subscription recomputes.
C5_NoRecomputationAfterStop ==
    ~(pc = "removed" /\ last.op = "_async_state_changed")

C7_ActivationRecomputes ==
    last.op = "async_added_to_hass"
    => /\ \E l \in listeners : l.entity_ids = {_base_entity, _second_entity}
       /\ pending = <<>>
       /\ Recomputed
       /\ _state = DecisionTable

\* C7 witness: activation left Tilted with nothing delivered.
C7_Witness ==
    /\ last.op = "async_added_to_hass"
    /\ pending = <<>>
    /\ _state = Tilted /\ _state # last.prev

\* C8: the output a recomputation leaves is the decision table of the mode
\* and the two snapshots it read, whatever the output before and whatever
\* led there.
C8_OutputIsFunctionOfInputs ==
    \A op \in {"async_added_to_hass", "_async_state_changed"} :
        (last.op = op /\ Recomputed) => _state = DecisionTable

\* C8 witness: a handler recomputed Closed where the output before was
\* Unknown, with a handler invocation still to come.
C8_Witness ==
    /\ last.op = "_async_state_changed"
    /\ last.prev = Unknown /\ _state = Closed
    /\ pending # <<>>

\* C9: the output is always Closed, Open, Tilted or Unknown.
C9_OutputIsDerivedState ==
    _state \in {Closed, Open, Tilted, Unknown}

\* C9 witness: a recomputation stored the translated label of Tilted.
C9_Witness ==
    /\ Recomputed
    /\ "tilted" \in DOMAIN _translations
    /\ _state = _translations["tilted"]

\* C10: no recomputation ends in an exception; a missing input, a rotation
\* that is no number and the binary pair (on, off) each leave Unknown.
C10_RecomputationNeverRaises ==
    Recomputed
    => /\ last.exc = "none"
       /\ last.log \in {"error_missing", "error_rotation", "warning_invalid"}
            => _state = Unknown
       /\ (~APresent \/ ~BPresent) => last.log = "error_missing"
       /\ (APresent /\ BPresent /\ _mode = MODE_ROTARY_TILT
             /\ float(BText).exc # "none") => last.log = "error_rotation"
       /\ (APresent /\ BPresent /\ _mode = MODE_BINARY_TILT /\ AOn /\ ~BOn)
            => last.log = "warning_invalid"

\* C10 witness: a handler met a rotation text that is no number and returned.
C10_Witness ==
    /\ last.op = "_async_state_changed"
    /\ last.log = "error_rotation" /\ last.exc = "none"
    /\ _state = Unknown /\ ha_state = Unknown

\* C11: when two handler invocations run one after the other, no input having
\* changed between them, the second leaves the state the first left and
\* both publish it.
C11_RepeatedRecomputation ==
    last.repeat
    => (Recomputed /\ _state = last.prev /\ last.run_writes = 2
          /\ ha_state = _state)

\* C11 witness: two invocations in a row, both leaving Tilted.
C11_Witness ==
    /\ last.repeat /\ _state = Tilted /\ last.prev = Tilted
    /\ last.run_writes = 2 /\ ha_state = Tilted

\* C12: in the end-to-end scenario the state is Open after activation, Tilted
\* once the change of B to "12" is handled, Closed once the change of A to
\* "off" is handled.
C12_EndToEnd ==
    /\ last.scenario = "started" => _state = Open
    /\ last.scenario = "b_handled" => _state = Tilted
    /\ last.scenario = "a_handled" => _state = Closed

\* C12 witness: the scenario ran to its end.
C12_Witness ==
    /\ last.scenario = "a_handled"
    /\ _state = Closed /\ last.prev = Tilted
    /\ AText = <<"o","f","f">> /\ BText = <<"1","2">>

\* C13: an entity that was never activated holds Unknown, holds no handle,
\* has no subscription and no handler invocation scheduled, and has published
\* nothing, whatever the inputs do.
C13_ConstructedIsInert ==
    (pc = "constructed"
       \/ (last.op = "async_will_remove_from_hass" /\ last.from = "constructed"))
    => /\ _state = Unknown
       /\ _remove_listeners = <<>>
       /\ listeners = {}
       /\ pending = <<>>
       /\ ha_state = NotWritten

\* C13 witness: not yet activated, an input has just reported, and the inputs
\* would give Closed.
C13_Witness ==
    /\ pc = "constructed" /\ last.op = "async_set"
    /\ APresent /\ BPresent /\ DecisionTable = Closed
    /\ _state = Unknown

\* C14: while the entity is subscribed, once no handler invocation is left to
\* run the state is the decision table of the snapshots the host holds.
C14_NoChangeLost ==
    (pc = "added" /\ pending = <<>>) => _state = DecisionTable

\* C14 witness: two changes were scheduled and both have been handled.
C14_Witness ==
    /\ pc = "added" /\ pending = <<>>
    /\ last.repeat /\ _state = Open

\* C16: async_will_remove_from_hass returns normally from every lifecycle
\* position; it calls the one handle activation acquired, once, and leaves no
\* handle held and no subscription live, so that before activation and on a
\* second call it calls nothing.
C16_StopReleasesOnce ==
    last.op = "async_will_remove_from_hass"
    => /\ last.exc = "none"
       /\ _remove_listeners = <<>>
       /\ listeners = {}
       /\ last.released = (IF last.from = "added" THEN 1 ELSE 0)

\* C16 witness: a second removal of an entity that had been activated.
C16_Witness ==
    /\ last.op = "async_will_remove_from_hass"
    /\ last.from = "removed" /\ last.released = 0
    /\ _state = Closed

\* C18: async_will_remove_from_hass leaves the state as it was and publishes
\* nothing.
C18_StopKeepsOutput ==
    last.op = "async_will_remove_from_hass"
    => (_state = last.prev /\ last.writes = 0 /\ ~Recomputed)

\* C18 witness: removal of an activated entity that holds Tilted.
C18_Witness ==
    /\ last.op = "async_will_remove_from_hass"
    /\ last.from = "added" /\ _state = Tilted

\* C19: a present input A whose text is not "on" counts as off: in binary
\* mode with a B that is not "on" either the state is Closed, in rotary mode
\* with a numeric B the state is Closed; never Unknown.
C19_NotOnIsOff ==
    (Recomputed /\ APresent /\ BPresent /\ AText # <<"o","n">>)
    => /\ (_mode = MODE_BINARY_TILT /\ BText # <<"o","n">>)
            => (_state = Closed /\ _state # Unknown)
       /\ (_mode = MODE_ROTARY_TILT /\ float(BText).exc = "none")
            => (_state = Closed /\ _state # Unknown)

\* C19 witness: binary mode, A "unavailable", B "not_a_number".
C19_Witness ==
    /\ Recomputed /\ _mode = MODE_BINARY_TILT /\ APresent /\ BPresent
    /\ AText = <<"u","n","a","v","a","i","l","a","b","l","e">>
    /\ BText = <<"n","o","t","_","a","_","n","u","m","b","e","r">>
    /\ _state = Closed

\* The snapshots a running handler invocation has read are those the host
\* holds now.
SnapshotsCurrent ==
    \A e \in task.read :
        /\ e \in DOMAIN task.states <=> e \in DOMAIN hass_states
        /\ e \in DOMAIN task.states => task.states[e] = hass_states[e]

\* C15: nothing runs between a handler's read of A, its read of B, its write
\* of the state and its publication: the snapshots it has read are the host's
\* current ones, the state it assigns is the decision table of the snapshots
\* the host holds at that moment, and it publishes the state it assigned.
C15_RecomputationAtomic ==
    /\ task.at \in {"base_read", "second_read", "updated"} => SnapshotsCurrent
    /\ task.at = "updated" => _state = DecisionTable
    /\ (task.at = "idle" /\ last.op = "_async_state_changed")
         => (ha_state = _state /\ _state = DecisionTable)

\* C15 witness: a handler has read both inputs and assigned Tilted where the
\* state before was Open; it has not published yet.
C15_Witness ==
    /\ task.at = "updated" /\ task.read = {_base_entity, _second_entity}
    /\ _state = Tilted /\ task.prev = Open /\ ha_state # _state

\* C17: no step of the entity (activation, the statements of the handler,
\* removal) changes an input snapshot, the mode or the two entity ids; the
\* recomputation inside the handler changes the state alone, the handles and
\* the subscription included in what it leaves.
C17_Frame ==
    [][ /\ last'.op \notin {"async_set", "async_remove"}
          => /\ hass_states' = hass_states
             /\ _mode' = _mode
             /\ _base_entity' = _base_entity
             /\ _second_entity' = _second_entity
        /\ last'.op = "assign"
          => UNCHANGED <<_mode, _base_entity, _second_entity, _translations,
                         _remove_listeners, hass_states, listeners, pending,
                         ha_state, pc>>
        /\ last'.op = "_async_state_changed"
          => UNCHANGED <<_remove_listeners, listeners, _translations, pc>> ]_vars

\* C17 witness: the recomputation of a handler has just changed the state,
\* with a subscription live and a handle held.
C17_Witness ==
    /\ last.op = "assign" /\ task.at = "updated"
    /\ _state # task.prev
    /\ Len(_remove_listeners) = 1 /\ listeners # {}
    /\ APresent /\ BPresent

\* The steps that have accepted input, in order.
AcceptedSteps == [i \in 1..Len(flow.accepted) |-> flow.accepted[i].step]

\* The name line 38 gives the device of the accepted user input.
ExpectedDeviceName ==
    LET entry == device_registry[flow.accepted[1].input.device_id]
    IN  IF entry.name_by_user \notin {None, ""} THEN entry.name_by_user
        ELSE IF entry.name \notin {None, ""} THEN entry.name
        ELSE "Unnamed Device"

\* C20: the flow has created an entry only when user, mode and second_entity
\* have accepted input in that order, and before that fewer steps have; the
\* data of the entry are the device id and base entity of the user input, the
\* name of that device, the mode and the second entity submitted; a user input
\* naming a device the registry lacks leaves the flow at the user form with
\* errors device_id: device_invalid, nothing accepted and nothing stored.
C20_ConfigFlow ==
    /\ flow.result.type = "create_entry"
         => /\ AcceptedSteps = <<"user", "mode", "second_entity">>
            /\ flow.accepted[1].input.device_id \in DOMAIN device_registry
            /\ flow.result.data =
                 [device_id |-> flow.accepted[1].input.device_id,
                  base_entity |-> flow.accepted[1].input.base_entity,
                  device_name |-> ExpectedDeviceName,
                  mode |-> flow.accepted[2].input.mode,
                  second_entity |-> flow.accepted[3].input.second_entity]
    /\ flow.result.type # "create_entry"
         => AcceptedSteps \in {<<>>, <<"user">>, <<"user", "mode">>}
    /\ (flow.last_input.step = "user"
          /\ flow.last_input.input.device_id \notin DOMAIN device_registry)
         => /\ flow.result = async_show_form("user", [device_id |-> "device_invalid"])
            /\ flow.cur_step = "user"
            /\ flow.accepted = <<>>
            /\ flow._temp_data = EmptyDict

\* C20 witness: an entry created for a device without a name, in a flow in
\* which a missing device was refused first.
C20_Witness ==
    /\ flow.result.type = "create_entry"
    /\ flow.rejected
    /\ flow.result.data["device_name"] = "Unnamed Device"
    /\ flow.result.data["mode"] = MODE_BINARY_TILT

\* C21: an init step of the options flow submitted with a device of the
\* registry leaves the flow at the second_entity form, with the selector of
\* number entities when the mode is rotary and of binary entities otherwise;
\* a second entity submitted there creates an entry with the device, base
\* entity, mode and second entity chosen.
C21_OptionsFlowCompletes ==
    /\ (flow.last_input.step = "init"
          /\ flow.last_input.input.device_id \in DOMAIN device_registry)
         => /\ flow.cur_step = "second_entity"
            /\ flow.result.type = "form"
            /\ flow.result.step_id = "second_entity"
            /\ flow.result.domain =
                 IF flow.last_input.input.mode = MODE_ROTARY_TILT
                 THEN {"number", "input_number"}
                 ELSE {"binary_sensor", "input_boolean"}
    /\ flow.last_input.step = "second_entity"
         => /\ flow.result.type = "create_entry"
            /\ flow.result.data["device_id"] = flow.accepted[1].input.device_id
            /\ flow.result.data["base_entity"] = flow.accepted[1].input.base_entity
            /\ flow.result.data["mode"] = flow.accepted[1].input.mode
            /\ flow.result.data["second_entity"] = flow.last_input.input.second_entity

\* What the options flow does instead: it never leaves the init step, and a
\* device of the registry gets the init form back with errors base: unknown.
OptionsFlowStaysAtInit ==
    /\ flow.cur_step \in {"none", "init"}
    /\ flow.result.type # "create_entry"
    /\ (flow.last_input.step = "init"
          /\ flow.last_input.input.device_id \in DOMAIN device_registry)
         => flow.result = async_show_form("init", [base |-> "unknown"])

====
